---------------------------- MODULE Spec2Model ----------------------------
(***************************************************************************)
(* A model of textsearcher (src/src/lib.rs): the atom-to-regex compiler,   *)
(* the AND-of-OR QueryGroup and its evaluation, and the UTF-8-safe         *)
(* substring windower.                                                     *)
(*                                                                         *)
(* Characters are Unicode code points (naturals); a string is a sequence   *)
(* of code points; a byte offset into a string counts UTF-8 bytes.         *)
(***************************************************************************)
EXTENDS Naturals, Integers, Sequences, FiniteSets, TLC

VARIABLES compiler, windower, matcher, scanner

vars == <<compiler, windower, matcher, scanner>>

-----------------------------------------------------------------------------
(* Code points the source names. *)

NUL == 0
TAB == 9
LF == 10
CR == 13
SPACE == 32
STAR == 42
PLUS == 43
DOT == 46
BACKSLASH == 92
LOWER_S == 115
PIPE == 124
HAN_LO == 19968
HAN_HI == 40869
KANA_LO == 12352
KANA_HI == 12543

(* Code points of the tests' atoms: a, 中, 文. *)
LOWER_A == 97
ZHONG == 20013
WEN == 25991

-----------------------------------------------------------------------------
(* Bounds of the model. *)

MaxAtomLen == 4
MaxWinLen == 2
MaxTextLen == 3
MaxGroupLen == 2
MaxPaths == 3
UsizeBits == 4

UsizeMax == 2 ^ UsizeBits - 1

-----------------------------------------------------------------------------
(* Sequences *)

SeqsUpTo(S, n) == UNION {[1..k -> S] : k \in 0..n}

-----------------------------------------------------------------------------
(* regex::escape: a backslash before every meta character. *)

MetaChars == {92, 46, 43, 42, 63, 40, 41, 124, 91, 93, 123, 125, 94, 36, 35, 38, 45, 126}

RECURSIVE escape(_)
escape(text) ==
    IF text = <<>> THEN <<>>
    ELSE (IF Head(text) \in MetaChars THEN <<BACKSLASH, Head(text)>> ELSE <<Head(text)>>)
         \o escape(Tail(text))

SepStar == <<BACKSLASH, LOWER_S, STAR>>
SepPlus == <<BACKSLASH, LOWER_S, PLUS>>

-----------------------------------------------------------------------------
(* _get_regex_for_atom: the character-class state machine. *)

get_char_type_TabNotBlank(ch) ==
    IF ch = NUL THEN "Term"
    ELSE IF ch = SPACE \/ ch = LF \/ ch = CR THEN "Blank"
    ELSE IF (ch >= HAN_LO /\ ch <= HAN_HI) \/ (ch >= KANA_LO /\ ch <= KANA_HI) THEN "Hans"
    ELSE "Other"

get_char_type(ch) ==
    IF ch = NUL THEN "Term"
    ELSE IF ch = SPACE \/ ch = TAB \/ ch = LF \/ ch = CR THEN "Blank"
    ELSE IF (ch >= HAN_LO /\ ch <= HAN_HI) \/ (ch >= KANA_LO /\ ch <= KANA_HI) THEN "Hans"
    ELSE "Other"

AtomStart == [regex |-> <<>>, word |-> <<>>, prev_ch |-> NUL, word_commited |-> FALSE]

(* "commit word to regex" *)
CommitWord(st) ==
    [st EXCEPT !.regex = @ \o escape(st.word), !.word = <<>>, !.word_commited = TRUE]

(* "push ch to word" *)
PushCh(st, ch) ==
    [st EXCEPT !.word = Append(@, ch), !.word_commited = FALSE, !.prev_ch = ch]

PushSep(st, sep) == [st EXCEPT !.regex = @ \o sep]

(* Variants of the arms below, each with one slip. *)
HansHans_AlwaysStar(st, ch) ==
    PushCh(PushSep(IF st.word_commited THEN st ELSE CommitWord(st), SepStar), ch)

HansOther_NoSep(st, ch) ==
    IF st.word_commited
    THEN PushCh(PushSep(st, SepStar), ch)
    ELSE PushCh(CommitWord(st), ch)

OtherHans_PlusAfterBlank(st, ch) ==
    IF st.word_commited
    THEN PushCh(PushSep(st, SepPlus), ch)
    ELSE PushCh(PushSep(CommitWord(st), SepStar), ch)

OtherOther_StarAfterBlank(st, ch) ==
    IF st.word_commited THEN PushCh(PushSep(st, SepStar), ch) ELSE PushCh(st, ch)

(* The arms of the match that emit a separator. *)
HansHans(st, ch) ==
    IF st.word_commited
    THEN PushCh(PushSep(st, SepPlus), ch)
    ELSE PushCh(PushSep(CommitWord(st), SepStar), ch)

HansOther(st, ch) ==
    PushCh(PushSep(IF st.word_commited THEN st ELSE CommitWord(st), SepStar), ch)

OtherHans(st, ch) ==
    PushCh(PushSep(IF st.word_commited THEN st ELSE CommitWord(st), SepStar), ch)

OtherOther(st, ch) ==
    IF st.word_commited THEN PushCh(PushSep(st, SepPlus), ch) ELSE PushCh(st, ch)

(* The arms that start the first word, and those that end a word. *)
TermStart(st, ch) == PushCh(st, ch)

WordEnd_EagerSep(st) == PushSep(IF st.word_commited THEN st ELSE CommitWord(st), SepPlus)

WordEnd(st) == IF st.word_commited THEN st ELSE CommitWord(st)

(* One iteration of the loop: the match on (class of prev_ch, class of ch). *)
AtomStep(st, ch) ==
    LET p == get_char_type(st.prev_ch)
        c == get_char_type(ch)
    IN CASE p = "Term" /\ c = "Term" -> st
         [] p = "Term" /\ c = "Blank" -> st
         [] p = "Term" /\ c = "Hans" -> TermStart(st, ch)
         [] p = "Term" /\ c = "Other" -> TermStart(st, ch)
         [] p = "Blank" -> st
         [] p = "Hans" /\ c = "Term" -> WordEnd(st)
         [] p = "Hans" /\ c = "Blank" -> WordEnd(st)
         [] p = "Hans" /\ c = "Hans" -> HansHans(st, ch)
         [] p = "Hans" /\ c = "Other" -> HansOther(st, ch)
         [] p = "Other" /\ c = "Term" -> [WordEnd(st) EXCEPT !.prev_ch = ch]
         [] p = "Other" /\ c = "Blank" -> WordEnd(st)
         [] p = "Other" /\ c = "Hans" -> OtherHans(st, ch)
         [] p = "Other" /\ c = "Other" -> OtherOther(st, ch)

(* atom.chars().chain("\0".chars()) *)
Chained(a) == Append(a, NUL)

RECURSIVE AtomRun(_, _)
AtomRun(st, chars) ==
    IF chars = <<>> THEN st ELSE AtomRun(AtomStep(st, Head(chars)), Tail(chars))

_get_regex_for_atom(a) == AtomRun(AtomStart, Chained(a)).regex

-----------------------------------------------------------------------------
(* The regex engine, as far as the pattern sources built here use it: a    *)
(* pattern is an alternation of concatenations of items; an item is a      *)
(* literal character, the class \s, or `.`, taken once or repeated by a    *)
(* following `*` or `+`. Built multi_line, case_insensitive, and with      *)
(* dot_matches_new_line(false).                                            *)

WhiteSpace == {9, 10, 11, 12, 13, 32, 133, 160, 5760, 8232, 8233, 8239, 8287, 12288}
                  \cup (8192..8202)

(* Meta characters that stand for themselves outside a character class. *)
PlainMeta == {35, 38, 45, 126}

Item(cls, ch) == [cls |-> cls, ch |-> ch, rep |-> "one"]

ParseError == [ok |-> FALSE, alts |-> <<>>]

RECURSIVE ParseFrom(_, _, _, _)
ParseFrom(src, i, alts, cur) ==
    IF i > Len(src) THEN [ok |-> TRUE, alts |-> Append(alts, cur)]
    ELSE LET c == src[i] IN
         IF c = BACKSLASH THEN
             IF i = Len(src) THEN ParseError
             ELSE IF src[i + 1] = LOWER_S
                  THEN ParseFrom(src, i + 2, alts, Append(cur, Item("space", LOWER_S)))
             ELSE IF src[i + 1] \in MetaChars
                  THEN ParseFrom(src, i + 2, alts, Append(cur, Item("lit", src[i + 1])))
             ELSE ParseError
         ELSE IF c = PIPE THEN ParseFrom(src, i + 1, Append(alts, cur), <<>>)
         ELSE IF c = STAR \/ c = PLUS THEN
             IF cur = <<>> \/ cur[Len(cur)].rep # "one" THEN ParseError
             ELSE ParseFrom(src, i + 1, alts,
                            [cur EXCEPT ![Len(cur)].rep = IF c = STAR THEN "star" ELSE "plus"])
         ELSE IF c = DOT THEN ParseFrom(src, i + 1, alts, Append(cur, Item("any", DOT)))
         ELSE IF c \in MetaChars \ PlainMeta THEN ParseError
         ELSE ParseFrom(src, i + 1, alts, Append(cur, Item("lit", c)))

Parse(src) == ParseFrom(src, 1, <<>>, <<>>)

(* RegexBuilder::new(src)...build(): the compiled pattern (its source and *)
(* the program parsed from it), or the error.                            *)
Build(src) == [ok |-> Parse(src).ok, src |-> src, alts |-> Parse(src).alts]

(* Simple case folding of the sample alphabet (ASCII letters). *)
Fold(c) == IF c >= 65 /\ c <= 90 THEN c + 32 ELSE c

ItemMatches(it, c) ==
    CASE it.cls = "lit" -> Fold(it.ch) = Fold(c)
      [] it.cls = "space" -> c \in WhiteSpace
      [] it.cls = "any" -> c # LF

(* The number of consecutive characters of text from position p that it matches. *)
RECURSIVE RunLen(_, _, _)
RunLen(it, text, p) ==
    IF p <= Len(text) /\ ItemMatches(it, text[p]) THEN 1 + RunLen(it, text, p + 1) ELSE 0

(* The end (a character position, exclusive) of the preferred match of      *)
(* items[i..] at position p of text, or 0: repetitions are greedy, and give *)
(* back one character at a time.                                            *)
RECURSIVE MatchItems(_, _, _, _)
RECURSIVE TryRep(_, _, _, _, _, _)
MatchItems(items, i, text, p) ==
    IF i > Len(items) THEN p
    ELSE LET it == items[i] IN
         IF it.rep = "one"
         THEN IF p <= Len(text) /\ ItemMatches(it, text[p])
              THEN MatchItems(items, i + 1, text, p + 1)
              ELSE 0
         ELSE TryRep(items, i, text, p, RunLen(it, text, p), IF it.rep = "plus" THEN 1 ELSE 0)

TryRep(items, i, text, p, k, least) ==
    IF k < least THEN 0
    ELSE LET r == MatchItems(items, i + 1, text, p + k) IN
         IF r # 0 THEN r ELSE IF k = 0 THEN 0 ELSE TryRep(items, i, text, p, k - 1, least)

(* The first alternative, in order, that matches at p. *)
RECURSIVE MatchAlts(_, _, _)
MatchAlts(alts, text, p) ==
    IF alts = <<>> THEN 0
    ELSE LET r == MatchItems(Head(alts), 1, text, p) IN
         IF r # 0 THEN r ELSE MatchAlts(Tail(alts), text, p)

(* Byte offset of character position p (1-based) of text. *)
Utf8Len(c) == IF c < 128 THEN 1 ELSE IF c < 2048 THEN 2 ELSE IF c < 65536 THEN 3 ELSE 4

RECURSIVE ByteLen(_)
ByteLen(text) == IF text = <<>> THEN 0 ELSE Utf8Len(Head(text)) + ByteLen(Tail(text))

ByteOffset(text, p) == ByteLen(SubSeq(text, 1, p - 1))

NoMatch == [found |-> FALSE, start |-> 0, end |-> 0]

(* Regex::find: the leftmost match, as a byte range. *)
RECURSIVE FindFrom(_, _, _)
FindFrom(alts, text, p) ==
    IF p > Len(text) + 1 THEN NoMatch
    ELSE LET r == MatchAlts(alts, text, p) IN
         IF r # 0
         THEN [found |-> TRUE, start |-> ByteOffset(text, p), end |-> ByteOffset(text, r)]
         ELSE FindFrom(alts, text, p + 1)

find(pat, text) == FindFrom(pat.alts, text, 1)

(* Regex::is_match: whether some alternative matches at some position. *)
regex_is_match(pat, text) ==
    \E p \in 1..(Len(text) + 1) :
        \E a \in 1..Len(pat.alts) : MatchItems(pat.alts[a], 1, text, p) # 0

-----------------------------------------------------------------------------
(* Strings as UTF-8 bytes; usize arithmetic. *)

Utf8Char(c) ==
    IF c < 128 THEN <<c>>
    ELSE IF c < 2048 THEN <<192 + (c \div 64), 128 + (c % 64)>>
    ELSE IF c < 65536
         THEN <<224 + (c \div 4096), 128 + ((c \div 64) % 64), 128 + (c % 64)>>
    ELSE <<240 + (c \div 262144), 128 + ((c \div 4096) % 64), 128 + ((c \div 64) % 64),
           128 + (c % 64)>>

RECURSIVE Utf8(_)
Utf8(text) == IF text = <<>> THEN <<>> ELSE Utf8Char(Head(text)) \o Utf8(Tail(text))

is_char_boundary_ZeroIsNot(text, index) ==
    IF index = 0 THEN FALSE
    ELSE IF index >= Len(Utf8(text)) THEN index = Len(Utf8(text))
    ELSE LET b == Utf8(text)[index + 1] IN b < 128 \/ b >= 192

(* str::is_char_boundary *)
is_char_boundary(text, index) ==
    IF index = 0 THEN TRUE
    ELSE IF index >= Len(Utf8(text)) THEN index = Len(Utf8(text))
    ELSE LET b == Utf8(text)[index + 1] IN b < 128 \/ b >= 192

(* x + y and x - y in usize: with overflow checks (a debug build) a result *)
(* out of range panics; without (a release build) it wraps.                *)
UsizeAdd(x, y, checks) ==
    IF x + y > UsizeMax
    THEN (IF checks THEN [panic |-> TRUE, val |-> 0]
          ELSE [panic |-> FALSE, val |-> (x + y) % (UsizeMax + 1)])
    ELSE [panic |-> FALSE, val |-> x + y]

UsizeSub(x, y, checks) ==
    IF x < y
    THEN (IF checks THEN [panic |-> TRUE, val |-> 0]
          ELSE [panic |-> FALSE, val |-> (x - y) % (UsizeMax + 1)])
    ELSE [panic |-> FALSE, val |-> x - y]

(* The characters of text whose bytes lie in [s, e), both character          *)
(* boundaries of text.                                                      *)
CharsIn(text, s, e) ==
    LET first == CHOOSE p \in 1..(Len(text) + 1) : ByteOffset(text, p) = s
        last == CHOOSE p \in 1..(Len(text) + 1) : ByteOffset(text, p) = e
    IN SubSeq(text, first, last - 1)

-----------------------------------------------------------------------------
(* approx_substring *)

WinStart(contents, approx_start, approx_end, checks) ==
    [pc |-> "start_loop", contents |-> contents, checks |-> checks,
     approx_start_byte_index |-> approx_start, approx_end_byte_index |-> approx_end,
     end |-> Len(Utf8(contents)),
     start_byte_index |-> approx_start, end_byte_index |-> approx_end,
     ret |-> <<>>, ret_start |-> 0, ret_end |-> 0]

WinStartLoop_ScanBack(w) ==
    IF w.start_byte_index <= w.end
    THEN IF is_char_boundary(w.contents, w.start_byte_index)
         THEN [w EXCEPT !.pc = "end_loop"]
         ELSE LET n == UsizeSub(w.start_byte_index, 1, w.checks) IN
              IF n.panic THEN [w EXCEPT !.pc = "panic"]
              ELSE [w EXCEPT !.start_byte_index = n.val]
    ELSE [w EXCEPT !.pc = "end_loop"]

(* One test of the `while start_byte_index <= end` loop. *)
WinStartLoop(w) ==
    IF w.start_byte_index <= w.end
    THEN IF is_char_boundary(w.contents, w.start_byte_index)
         THEN [w EXCEPT !.pc = "end_loop"]
         ELSE LET n == UsizeAdd(w.start_byte_index, 1, w.checks) IN
              IF n.panic THEN [w EXCEPT !.pc = "panic"]
              ELSE [w EXCEPT !.start_byte_index = n.val]
    ELSE [w EXCEPT !.pc = "end_loop"]

(* One turn of the `loop` on end_byte_index. *)
WinEndLoop(w) ==
    IF is_char_boundary(w.contents, w.end_byte_index)
    THEN [w EXCEPT !.pc = "slice"]
    ELSE LET n == UsizeSub(w.end_byte_index, 1, w.checks) IN
         IF n.panic THEN [w EXCEPT !.pc = "panic"]
         ELSE [w EXCEPT !.end_byte_index = n.val]

(* &contents[s..e]: panics unless s <= e <= len and both are boundaries. *)
SliceOk(text, s, e) ==
    /\ s <= e
    /\ e <= Len(Utf8(text))
    /\ is_char_boundary(text, s)
    /\ is_char_boundary(text, e)

WinSlice_NoOrderTest(w) ==
    IF SliceOk(w.contents, w.start_byte_index, w.end_byte_index)
    THEN [w EXCEPT !.pc = "done",
                   !.ret = CharsIn(w.contents, w.start_byte_index, w.end_byte_index),
                   !.ret_start = w.start_byte_index, !.ret_end = w.end_byte_index]
    ELSE [w EXCEPT !.pc = "panic"]

(* The final `if start_byte_index <= end_byte_index`. *)
WinSlice(w) ==
    IF w.start_byte_index <= w.end_byte_index
    THEN IF SliceOk(w.contents, w.start_byte_index, w.end_byte_index)
         THEN [w EXCEPT !.pc = "done",
                        !.ret = CharsIn(w.contents, w.start_byte_index, w.end_byte_index),
                        !.ret_start = w.start_byte_index, !.ret_end = w.end_byte_index]
         ELSE [w EXCEPT !.pc = "panic"]
    ELSE [w EXCEPT !.pc = "done", !.ret = <<>>]

WinStep(w) ==
    CASE w.pc = "start_loop" -> WinStartLoop(w)
      [] w.pc = "end_loop" -> WinEndLoop(w)
      [] w.pc = "slice" -> WinSlice(w)
      [] OTHER -> w

RECURSIVE WinRun(_)
WinRun(w) == IF w.pc \in {"done", "panic"} THEN w ELSE WinRun(WinStep(w))

approx_substring(contents, approx_start, approx_end, checks) ==
    WinRun(WinStart(contents, approx_start, approx_end, checks))

-----------------------------------------------------------------------------
(* QueryGroup and its evaluation. *)

(* [String]::join *)
RECURSIVE join(_, _)
join(strs, sep) ==
    IF strs = <<>> THEN <<>>
    ELSE IF Len(strs) = 1 THEN strs[1]
    ELSE strs[1] \o sep \o join(Tail(strs), sep)

(* The built pattern or, where build() fails, the panic of unwrap(). *)
get_regex_for_atom(a) == Build(_get_regex_for_atom(a))

get_regex_for_atoms(atoms) ==
    Build(join([i \in 1..Len(atoms) |-> _get_regex_for_atom(atoms[i])], <<PIPE>>))

RECURSIVE NewLoop(_, _)
NewLoop(or_grps, patterns) ==
    IF or_grps = <<>> THEN patterns
    ELSE NewLoop(Tail(or_grps), Append(patterns, get_regex_for_atoms(Head(or_grps))))

QueryGroup_new_NoEmptyTest(and_of_or_atoms) ==
    LET patterns == NewLoop(and_of_or_atoms, <<>>) IN
    IF \E i \in 1..Len(patterns) : ~patterns[i].ok
    THEN [kind |-> "panic", patterns |-> <<>>]
    ELSE [kind |-> "Ok", patterns |-> patterns]

QueryGroup_new(and_of_or_atoms) ==
    IF and_of_or_atoms = <<>>
    THEN [kind |-> "Err", patterns |-> <<>>]
    ELSE LET patterns == NewLoop(and_of_or_atoms, <<>>) IN
         IF \E i \in 1..Len(patterns) : ~patterns[i].ok
         THEN [kind |-> "panic", patterns |-> <<>>]
         ELSE [kind |-> "Ok", patterns |-> patterns]

RECURSIVE is_match_str_AnyPattern(_, _)
is_match_str_AnyPattern(patterns, contents) ==
    IF patterns = <<>> THEN FALSE
    ELSE IF regex_is_match(Head(patterns), contents) THEN TRUE
    ELSE is_match_str_AnyPattern(Tail(patterns), contents)

RECURSIVE is_match_str(_, _)
is_match_str(patterns, contents) ==
    IF patterns = <<>> THEN TRUE
    ELSE IF ~regex_is_match(Head(patterns), contents) THEN FALSE
    ELSE is_match_str(Tail(patterns), contents)

(* fs::read_to_string: fs maps a path to Ok(contents) or to an error. *)
ReadOk(text) == [ok |-> TRUE, contents |-> text]
ReadErr == [ok |-> FALSE, contents |-> <<>>]

read_to_string(fs, path) == fs[path]

None == [kind |-> "None"]
NoContext == [some |-> FALSE, text |-> <<>>]

RECURSIVE IsMatchLoop(_, _)
IsMatchLoop(patterns, contents) ==
    IF patterns = <<>> THEN TRUE
    ELSE IF ~regex_is_match(Head(patterns), contents) THEN FALSE
    ELSE IsMatchLoop(Tail(patterns), contents)

is_match(patterns, fs, path) ==
    LET r == read_to_string(fs, path) IN
    IF r.ok
    THEN IF IsMatchLoop(patterns, r.contents)
         THEN [kind |-> "Some", path |-> path, context |-> NoContext]
         ELSE None
    ELSE None

(* The i == 0 arm of is_match_context: the window around the first match   *)
(* of the leading pattern. kind is "None" (no match), "panic" or "Some".   *)
LeadingContext(pat, contents, a, b, checks) ==
    LET m == find(pat, contents)
        len == Len(Utf8(contents))
        sum == UsizeAdd(m.end, b, checks)
        approx_start == IF m.start < a THEN 0 ELSE m.start - a
        approx_end == IF sum.val > len THEN len ELSE sum.val
        w == approx_substring(contents, approx_start, approx_end, checks)
    IN  IF ~m.found THEN [kind |-> "None"]
        ELSE IF sum.panic \/ w.pc = "panic"
             THEN [kind |-> "panic", m |-> m]
        ELSE [kind |-> "Some", m |-> m,
              approx_start |-> approx_start, approx_end |-> approx_end,
              context |-> [some |-> TRUE, text |-> w.ret],
              ret_start |-> w.ret_start, ret_end |-> w.ret_end]

is_match_context(patterns, fs, path, a, b, checks) ==
    LET r == read_to_string(fs, path) IN
    IF ~r.ok THEN None
    ELSE IF patterns = <<>>
         THEN [kind |-> "Some", path |-> path, context |-> NoContext]
    ELSE LET lead == LeadingContext(patterns[1], r.contents, a, b, checks) IN
         IF lead.kind = "None" THEN None
         ELSE IF lead.kind = "panic" THEN [kind |-> "panic"]
         ELSE IF ~IsMatchLoop(Tail(patterns), r.contents) THEN None
         ELSE [kind |-> "Some", path |-> path, context |-> lead.context, lead |-> lead]

-----------------------------------------------------------------------------
(* search_text, search_text_context, py_search_text *)

(* Option<usize> *)
NoneArg == [some |-> FALSE, val |-> 0]
SomeArg(v) == [some |-> TRUE, val |-> v]

Pending == [kind |-> "Pending"]

NoScan == [fn |-> "none", a |-> NoneArg, b |-> NoneArg]

(* A group, the files and a path list, before a scan is called; and the    *)
(* locals of the iteration and of the collection.                          *)
ScanEntry(patterns, fs, textfile_paths, checks) ==
    [pc |-> "call", call |-> NoScan, patterns |-> patterns, fs |-> fs,
     textfile_paths |-> textfile_paths, checks |-> checks,
     context |-> FALSE, a |-> 0, b |-> 0, parallel |-> FALSE,
     pos |-> 1, item |-> Pending, out |-> <<>>,
     slots |-> [i \in 1..Len(textfile_paths) |-> Pending],
     ret |-> <<>>]

Called(sc, fn, a, b) == [sc EXCEPT !.call = [fn |-> fn, a |-> a, b |-> b]]

ScanStart(sc, context, a, b, parallel) ==
    [sc EXCEPT !.pc = "scan", !.context = context, !.a = a, !.b = b,
               !.parallel = parallel]

search_text(sc, parallel) == ScanStart(sc, FALSE, 0, 0, parallel)

search_text_context(sc, a, b, parallel) == ScanStart(sc, TRUE, a, b, parallel)

py_search_text_OneArgIsEnough(sc, a, b) ==
    IF a.some \/ b.some
    THEN search_text_context(sc, a.val, b.val, TRUE)
    ELSE search_text(sc, TRUE)

py_search_text(sc, a, b) ==
    IF a.some /\ b.some
    THEN search_text_context(sc, a.val, b.val, TRUE)
    ELSE search_text(sc, TRUE)

(* The closure given to filter_map: |path| is_match(..) or                 *)
(* |path| is_match_context(.., a, b).                                      *)
FilterMapFn(sc, path) ==
    IF sc.context
    THEN is_match_context(sc.patterns, sc.fs, path, sc.a, sc.b, sc.checks)
    ELSE is_match(sc.patterns, sc.fs, path)

FileMatchResult(r) == [path |-> r.path, context |-> r.context]

(* iter().filter_map(..): the closure is called on the next path. *)
SeqCall(sc) == [sc EXCEPT !.item = FilterMapFn(sc, sc.textfile_paths[sc.pos])]

SeqPush_Front(out, r) == <<r>> \o out

SeqPush(out, r) == Append(out, r)

(* What the closure returned is kept (Some), dropped (None), or its panic  *)
(* unwinds out of the scan.                                                *)
SeqTake(sc) ==
    IF sc.item.kind = "panic" THEN [sc EXCEPT !.pc = "panic"]
    ELSE [sc EXCEPT !.pos = @ + 1, !.item = Pending,
                    !.out = IF sc.item.kind = "Some"
                            THEN SeqPush(@, FileMatchResult(sc.item)) ELSE @]

(* collect() *)
SeqCollect(sc) == [sc EXCEPT !.pc = "done", !.ret = sc.out]

SeqStep(sc) ==
    IF sc.item # Pending THEN SeqTake(sc)
    ELSE IF sc.pos <= Len(sc.textfile_paths) THEN SeqCall(sc)
    ELSE SeqCollect(sc)

RECURSIVE SeqRun(_)
SeqRun(sc) == IF sc.pc \in {"done", "panic"} THEN sc ELSE SeqRun(SeqStep(sc))

ParStore_SharedSlot(sc, i, r) ==
    [sc EXCEPT !.slots = [j \in DOMAIN sc.slots |-> r]]

ParStore(sc, i, r) == [sc EXCEPT !.slots[i] = r]

(* par_iter().filter_map(..): the work item of the i-th path, run by any   *)
(* worker at any time.                                                     *)
ParCall(sc, i) == ParStore(sc, i, FilterMapFn(sc, sc.textfile_paths[i]))

(* collect() of the parallel iterator: the Some items, by position. *)
RECURSIVE Collected(_, _)
Collected(slots, i) ==
    IF i > Len(slots) THEN <<>>
    ELSE (IF slots[i].kind = "Some" THEN <<FileMatchResult(slots[i])>> ELSE <<>>)
         \o Collected(slots, i + 1)

ParCollect(sc) == [sc EXCEPT !.pc = "done", !.ret = Collected(sc.slots, 1)]

(* A panic in a work item is the panic of the scan. *)
ParUnwind(sc) == [sc EXCEPT !.pc = "panic"]

-----------------------------------------------------------------------------
(* The compiler run step by step on one atom. *)

AtomChars == {NUL, TAB, SPACE, LOWER_A, STAR, ZHONG, WEN}

Atoms == SeqsUpTo(AtomChars, MaxAtomLen)

Idle == [pc |-> "idle"]

CompilerInit ==
    \E a \in Atoms :
        compiler = [pc |-> "loop", atom |-> a, pos |-> 1, st |-> AtomStart, ret |-> <<>>]

CompileStep ==
    /\ compiler.pc = "loop"
    /\ compiler.pos <= Len(Chained(compiler.atom))
    /\ compiler' = [compiler EXCEPT
                        !.st = AtomStep(@, Chained(compiler.atom)[compiler.pos]),
                        !.pos = @ + 1]
    /\ UNCHANGED <<windower, matcher, scanner>>

CompileReturn ==
    /\ compiler.pc = "loop"
    /\ compiler.pos > Len(Chained(compiler.atom))
    /\ compiler' = [compiler EXCEPT !.pc = "done", !.ret = compiler.st.regex]
    /\ UNCHANGED <<windower, matcher, scanner>>

InitAtom == CompilerInit /\ windower = Idle /\ matcher = Idle /\ scanner = Idle

NextAtom == CompileStep \/ CompileReturn

SpecAtom == InitAtom /\ [][NextAtom]_vars

-----------------------------------------------------------------------------
(* The windower run step by step on one text and one pair of offsets:      *)
(* texts of 1-, 2-, 3- and 4-byte characters (a, U+00E9, U+4E2D, U+1F600), *)
(* every pair of usize offsets, either build.                              *)

WinChars == {97, 233, 20013, 128512}

WinTexts == {t \in SeqsUpTo(WinChars, MaxWinLen) : Len(Utf8(t)) <= UsizeMax}

WindowerInit ==
    \E t \in WinTexts, s \in 0..UsizeMax, e \in 0..UsizeMax, checks \in BOOLEAN :
        windower = WinStart(t, s, e, checks)

WindowScanStart ==
    /\ windower.pc = "start_loop"
    /\ windower' = WinStartLoop(windower)
    /\ UNCHANGED <<compiler, matcher, scanner>>

WindowScanEnd ==
    /\ windower.pc = "end_loop"
    /\ windower' = WinEndLoop(windower)
    /\ UNCHANGED <<compiler, matcher, scanner>>

WindowSlice ==
    /\ windower.pc = "slice"
    /\ windower' = WinSlice(windower)
    /\ UNCHANGED <<compiler, matcher, scanner>>

InitWindow == WindowerInit /\ compiler = Idle /\ matcher = Idle /\ scanner = Idle

NextWindow == WindowScanStart \/ WindowScanEnd \/ WindowSlice

SpecWindow == InitWindow /\ [][NextWindow]_vars

-----------------------------------------------------------------------------
(* One query built and evaluated: on a string, on the file holding it, and *)
(* on a file that cannot be read. A call of is_match_context is made by    *)
(* either build (checks: with or without overflow checks).                 *)

(* The inner lists: "A" / "中a", "| |" / " ", "aa" / no atom at all. *)
OrGroups ==
    { << <<65>> >>,
      << <<ZHONG, LOWER_A>>, <<PIPE, SPACE, PIPE>> >>,
      << <<SPACE>>, <<LOWER_A, LOWER_A>> >>,
      << >> }

Queries == SeqsUpTo(OrGroups, MaxGroupLen)

TextChars == {LOWER_A, SPACE, ZHONG, PIPE}

Texts == {t \in SeqsUpTo(TextChars, MaxTextLen) : Len(Utf8(t)) <= UsizeMax}

Paths == {"text.txt", "missing.txt"}

Before == {0, 1, UsizeMax}
After == {0, 1, UsizeMax}

NoCall == [op |-> "none"]

MatcherInit ==
    \E q \in Queries, t \in Texts :
        matcher = [pc |-> "start", and_of_or_atoms |-> q, text |-> t,
                   fs |-> [p \in Paths |-> IF p = "text.txt" THEN ReadOk(t) ELSE ReadErr],
                   group |-> [kind |-> "none", patterns |-> <<>>],
                   call |-> NoCall]

New ==
    /\ matcher.pc = "start"
    /\ LET g == QueryGroup_new(matcher.and_of_or_atoms) IN
       matcher' = [matcher EXCEPT !.group = g,
                                  !.pc = IF g.kind = "Ok" THEN "built" ELSE "failed"]
    /\ UNCHANGED <<compiler, windower, scanner>>

MatchStr ==
    /\ matcher.pc = "built"
    /\ matcher' = [matcher EXCEPT !.pc = "returned", !.call =
           [op |-> "match_str", contents |-> matcher.text,
            ret |-> is_match_str(matcher.group.patterns, matcher.text)]]
    /\ UNCHANGED <<compiler, windower, scanner>>

IsMatch ==
    /\ matcher.pc = "built"
    /\ \E path \in Paths :
           matcher' = [matcher EXCEPT !.pc = "returned", !.call =
               [op |-> "is_match", path |-> path,
                ret |-> is_match(matcher.group.patterns, matcher.fs, path)]]
    /\ UNCHANGED <<compiler, windower, scanner>>

IsMatchContext ==
    /\ matcher.pc = "built"
    /\ \E path \in Paths, a \in Before, b \in After, checks \in BOOLEAN :
           matcher' = [matcher EXCEPT !.pc = "returned", !.call =
               [op |-> "is_match_context", path |-> path, a |-> a, b |-> b,
                ret |-> is_match_context(matcher.group.patterns, matcher.fs, path,
                                         a, b, checks)]]
    /\ UNCHANGED <<compiler, windower, scanner>>

InitMatch == MatcherInit /\ compiler = Idle /\ windower = Idle /\ scanner = Idle

NextMatch == New \/ MatchStr \/ IsMatch \/ IsMatchContext

SpecMatch == InitMatch /\ [][NextMatch]_vars

-----------------------------------------------------------------------------
(* The scans: tests::test_search_text has two files and a query matching   *)
(* each; here two files, a missing one, and queries matching both, one and *)
(* neither.                                                                *)

ScanQueries ==
    { << << <<65>> >> >>,
      << << <<65>> >>, << <<ZHONG, LOWER_A>>, <<PIPE, SPACE, PIPE>> >> >>,
      << << <<SPACE>>, <<LOWER_A, LOWER_A>> >> >> }

ScanPaths == {"hello.txt", "world.txt", "missing.txt"}

ScanFiles ==
    [p \in ScanPaths |->
        CASE p = "hello.txt" -> ReadOk(<<ZHONG, LOWER_A>>)
          [] p = "world.txt" -> ReadOk(<<LOWER_A>>)
          [] OTHER -> ReadErr]

ScanBefore == {0, 1}
ScanAfter == {0, UsizeMax}

OptBefore == {NoneArg} \cup {SomeArg(v) : v \in ScanBefore}
OptAfter == {NoneArg} \cup {SomeArg(v) : v \in ScanAfter}

ScannerInit ==
    \E q \in ScanQueries, paths \in SeqsUpTo(ScanPaths, MaxPaths), checks \in BOOLEAN :
        scanner = ScanEntry(QueryGroup_new(q).patterns, ScanFiles, paths, checks)

SearchText ==
    /\ scanner.pc = "call"
    /\ \E parallel \in BOOLEAN :
           scanner' = search_text(Called(scanner, "search_text", NoneArg, NoneArg),
                                  parallel)
    /\ UNCHANGED <<compiler, windower, matcher>>

SearchTextContext ==
    /\ scanner.pc = "call"
    /\ \E a \in ScanBefore, b \in ScanAfter, parallel \in BOOLEAN :
           scanner' = search_text_context(
                          Called(scanner, "search_text_context", SomeArg(a), SomeArg(b)),
                          a, b, parallel)
    /\ UNCHANGED <<compiler, windower, matcher>>

PySearchText ==
    /\ scanner.pc = "call"
    /\ \E a \in OptBefore, b \in OptAfter :
           scanner' = py_search_text(Called(scanner, "py_search_text", a, b), a, b)
    /\ UNCHANGED <<compiler, windower, matcher>>

SeqIsMatch ==
    /\ scanner.pc = "scan"
    /\ ~scanner.parallel
    /\ scanner.item = Pending
    /\ scanner.pos <= Len(scanner.textfile_paths)
    /\ scanner' = SeqCall(scanner)
    /\ UNCHANGED <<compiler, windower, matcher>>

SeqFilterMap ==
    /\ scanner.pc = "scan"
    /\ ~scanner.parallel
    /\ scanner.item # Pending
    /\ scanner' = SeqTake(scanner)
    /\ UNCHANGED <<compiler, windower, matcher>>

SeqReturn ==
    /\ scanner.pc = "scan"
    /\ ~scanner.parallel
    /\ scanner.item = Pending
    /\ scanner.pos > Len(scanner.textfile_paths)
    /\ scanner' = SeqCollect(scanner)
    /\ UNCHANGED <<compiler, windower, matcher>>

ParIsMatch ==
    /\ scanner.pc = "scan"
    /\ scanner.parallel
    /\ \E i \in DOMAIN scanner.slots :
           /\ scanner.slots[i] = Pending
           /\ scanner' = ParCall(scanner, i)
    /\ UNCHANGED <<compiler, windower, matcher>>

ParReturn ==
    /\ scanner.pc = "scan"
    /\ scanner.parallel
    /\ \A i \in DOMAIN scanner.slots : scanner.slots[i].kind \in {"Some", "None"}
    /\ scanner' = ParCollect(scanner)
    /\ UNCHANGED <<compiler, windower, matcher>>

ParPanic ==
    /\ scanner.pc = "scan"
    /\ scanner.parallel
    /\ \E i \in DOMAIN scanner.slots : scanner.slots[i].kind = "panic"
    /\ scanner' = ParUnwind(scanner)
    /\ UNCHANGED <<compiler, windower, matcher>>

InitScan == ScannerInit /\ compiler = Idle /\ windower = Idle /\ matcher = Idle

NextScan ==
    \/ SearchText
    \/ SearchTextContext
    \/ PySearchText
    \/ SeqIsMatch
    \/ SeqFilterMap
    \/ SeqReturn
    \/ ParIsMatch
    \/ ParReturn
    \/ ParPanic

SpecScan == InitScan /\ [][NextScan]_vars

-----------------------------------------------------------------------------
(* Vocabulary of the properties of the compiler. *)

OnlyClasses(a, cs) == \A i \in 1..Len(a) : get_char_type(a[i]) \in cs

CompileDone == compiler.pc = "done"

(* The maximal runs of non-blank characters of a, in order. *)
RECURSIVE SplitWords(_, _, _)
SplitWords(a, cur, acc) ==
    IF a = <<>> THEN (IF cur = <<>> THEN acc ELSE Append(acc, cur))
    ELSE IF get_char_type(Head(a)) = "Blank"
         THEN SplitWords(Tail(a), <<>>, IF cur = <<>> THEN acc ELSE Append(acc, cur))
         ELSE SplitWords(Tail(a), Append(cur, Head(a)), acc)

RECURSIVE JoinWith(_, _)
JoinWith(ws, sep) ==
    IF ws = <<>> THEN <<>>
    ELSE IF Len(ws) = 1 THEN ws[1]
    ELSE ws[1] \o sep \o JoinWith(Tail(ws), sep)

EscapedWords(a) ==
    LET ws == SplitWords(a, <<>>, <<>>) IN [i \in 1..Len(ws) |-> escape(ws[i])]

(* Every character of a its own token: `\s*` between neighbours, `\s+`   *)
(* where blanks lie between.                                              *)
RECURSIVE HanJoined(_, _, _)
HanJoined(a, started, blankSeen) ==
    IF a = <<>> THEN <<>>
    ELSE IF get_char_type(Head(a)) = "Blank" THEN HanJoined(Tail(a), started, started)
    ELSE (IF ~started THEN <<>> ELSE IF blankSeen THEN SepPlus ELSE SepStar)
         \o <<Head(a)>> \o HanJoined(Tail(a), TRUE, FALSE)

(* The indices of the literal items of a parsed alternative, in order. *)
RECURSIVE LitIndices(_, _)
LitIndices(items, i) ==
    IF i > Len(items) THEN <<>>
    ELSE (IF items[i].cls = "lit" THEN <<i>> ELSE <<>>) \o LitIndices(items, i + 1)

(* The indices of the Hans and Other characters of an atom, in order. *)
RECURSIVE TokIndices(_, _)
TokIndices(a, i) ==
    IF i > Len(a) THEN <<>>
    ELSE (IF get_char_type(a[i]) \in {"Hans", "Other"} THEN <<i>> ELSE <<>>)
         \o TokIndices(a, i + 1)

StarItem == [cls |-> "space", ch |-> LOWER_S, rep |-> "star"]

(* The returned pattern source read back as items: one alternative whose  *)
(* literal items are the token characters of the atom, one for one.       *)
RetParsed == Parse(compiler.ret)
RetItems == RetParsed.alts[1]
RetLits == LitIndices(RetItems, 1)
AtomToks == TokIndices(compiler.atom, 1)

RetAligned ==
    /\ RetParsed.ok
    /\ Len(RetParsed.alts) = 1
    /\ Len(RetLits) = Len(AtomToks)

(* What the pattern source holds between the k-th token and the next. *)
Between(k) == SubSeq(RetItems, RetLits[k] + 1, RetLits[k + 1] - 1)

(* The k-th and the next token are one Hans and one Other character. *)
ScriptTransition(k) ==
    {get_char_type(compiler.atom[AtomToks[k]]),
     get_char_type(compiler.atom[AtomToks[k + 1]])} = {"Hans", "Other"}

(* Only blanks (and at least one) lie between the k-th token and the next. *)
BlanksBetween(k) ==
    /\ AtomToks[k + 1] > AtomToks[k] + 1
    /\ \A i \in (AtomToks[k] + 1)..(AtomToks[k + 1] - 1) :
           get_char_type(compiler.atom[i]) = "Blank"

WithoutBlanksAfter(k) ==
    SubSeq(compiler.atom, 1, AtomToks[k])
        \o SubSeq(compiler.atom, AtomToks[k + 1], Len(compiler.atom))

-----------------------------------------------------------------------------
(* C4: for an atom of Other-class characters and blanks only, the pattern  *)
(* source is the escaped words in order, joined by exactly one `\s+` per   *)
(* run of blanks between two words; leading and trailing blanks emit       *)
(* nothing, and nothing is emitted inside a word.                          *)
C4_WordsJoinedByOnePlus ==
    (CompileDone /\ OnlyClasses(compiler.atom, {"Other", "Blank"}))
        => compiler.ret = JoinWith(EscapedWords(compiler.atom), SepPlus)

C4_Witness ==
    /\ CompileDone
    /\ OnlyClasses(compiler.atom, {"Other", "Blank"})
    /\ \E i \in 1..(Len(compiler.atom) - 3) :
           /\ get_char_type(compiler.atom[i]) = "Other"
           /\ get_char_type(compiler.atom[i + 1]) = "Blank"
           /\ get_char_type(compiler.atom[i + 2]) = "Blank"
           /\ get_char_type(compiler.atom[i + 3]) = "Other"
    /\ Len(compiler.ret) = 5

(* C5: for an atom of Han-class characters and blanks only, every Han      *)
(* character is a literal token of its own; two with no blank between are  *)
(* joined by exactly `\s*`, two with blanks between by exactly one `\s+`.  *)
C5_HanJoinedByStarOrPlus ==
    (CompileDone /\ OnlyClasses(compiler.atom, {"Hans", "Blank"}))
        => compiler.ret = HanJoined(compiler.atom, FALSE, FALSE)

C5_Witness ==
    /\ CompileDone
    /\ compiler.atom = <<ZHONG, WEN, SPACE, ZHONG>>
    /\ compiler.ret = <<ZHONG>> \o SepStar \o <<WEN>> \o SepPlus \o <<ZHONG>>

(* C6: in every atom, where a Han-class and an Other-class character stand *)
(* next to each other (either order, no blank between), the pattern source *)
(* holds exactly one `\s*` between the two tokens.                         *)
C6_StarAtScriptTransition ==
    CompileDone =>
        /\ RetAligned
        /\ \A k \in 1..(Len(AtomToks) - 1) :
               (ScriptTransition(k) /\ AtomToks[k + 1] = AtomToks[k] + 1)
                   => Between(k) = <<StarItem>>

C6_Witness ==
    /\ CompileDone
    /\ compiler.atom = <<LOWER_A, ZHONG, STAR>>
    /\ compiler.ret = <<LOWER_A>> \o SepStar \o <<ZHONG>> \o SepStar \o <<BACKSLASH, STAR>>

(* C7: in every atom, where a Han-class and an Other-class token (either   *)
(* order) have one or more blanks between them, the separator is still     *)
(* exactly `\s*`, and the atom compiles to the pattern source of the atom  *)
(* with those blanks removed.                                              *)
C7_BlanksKeepStarAtTransition ==
    CompileDone =>
        /\ RetAligned
        /\ \A k \in 1..(Len(AtomToks) - 1) :
               (ScriptTransition(k) /\ BlanksBetween(k))
                   => /\ Between(k) = <<StarItem>>
                      /\ compiler.ret = _get_regex_for_atom(WithoutBlanksAfter(k))

C7_Witness ==
    /\ CompileDone
    /\ \E k \in 1..(Len(AtomToks) - 1) : ScriptTransition(k) /\ BlanksBetween(k)
    /\ compiler.atom = <<ZHONG, SPACE, TAB, LOWER_A>>
    /\ compiler.ret = <<ZHONG>> \o SepStar \o <<LOWER_A>>

(* C8: an atom that is empty or holds blank characters only, of any        *)
(* length, compiles to the empty pattern source, which builds.             *)
C8_BlankAtomIsEmptyPattern ==
    (CompileDone /\ \A i \in 1..Len(compiler.atom) :
                        compiler.atom[i] \in {SPACE, TAB, LF, CR})
        => compiler.ret = <<>> /\ Build(compiler.ret).ok

C8_Witness ==
    /\ CompileDone
    /\ Len(compiler.atom) = MaxAtomLen
    /\ \A i \in 1..Len(compiler.atom) : compiler.atom[i] \in {SPACE, TAB, LF, CR}
    /\ TAB \in {compiler.atom[i] : i \in 1..Len(compiler.atom)}
    /\ compiler.ret = <<>>

(* The byte offsets of text at which a character starts, and its length. *)
Boundaries(text) == {ByteOffset(text, p) : p \in 1..(Len(text) + 1)}

(* C9: for every text and every pair of byte offsets (inside a multi-byte  *)
(* character, past the end of the text, crossed), approx_substring never   *)
(* panics, and returns the empty string or a slice of the text whose two   *)
(* ends are character boundaries.                                          *)
C9_WindowNeverPanics ==
    /\ windower.pc # "panic"
    /\ windower.pc = "done" =>
           \/ windower.ret = <<>>
           \/ /\ windower.ret_start \in Boundaries(windower.contents)
              /\ windower.ret_end \in Boundaries(windower.contents)
              /\ windower.ret_start < windower.ret_end
              /\ Utf8(windower.ret)
                     = SubSeq(Utf8(windower.contents),
                              windower.ret_start + 1, windower.ret_end)

C9_Witness ==
    /\ windower.pc = "done"
    /\ windower.contents = <<20013, 128512>>
    /\ windower.approx_start_byte_index = 1
    /\ windower.approx_end_byte_index = UsizeMax
    /\ windower.ret = <<128512>>

-----------------------------------------------------------------------------
(* Vocabulary of the properties of the query group. *)

Query == matcher.and_of_or_atoms
Patterns == matcher.group.patterns

Perms(n) == {f \in [1..n -> 1..n] : \A i, j \in 1..n : f[i] = f[j] => i = j}

MatchStrReturned == matcher.pc = "returned" /\ matcher.call.op = "match_str"
ContextReturned == matcher.pc = "returned" /\ matcher.call.op = "is_match_context"

(* C1: match_str on a group built by QueryGroup::new returns true exactly  *)
(* when every pattern of the group matches somewhere in the text, and the  *)
(* result is the same for every permutation of the stored patterns.        *)
C1_MatchStrIsAndOfPatterns ==
    MatchStrReturned =>
        /\ matcher.call.ret
               <=> \A i \in 1..Len(Patterns) :
                       regex_is_match(Patterns[i], matcher.call.contents)
        /\ \A f \in Perms(Len(Patterns)) :
               is_match_str([i \in 1..Len(Patterns) |-> Patterns[f[i]]],
                            matcher.call.contents) = matcher.call.ret

C1_Witness ==
    /\ MatchStrReturned
    /\ Len(Patterns) = 2
    /\ regex_is_match(Patterns[1], matcher.call.contents)
    /\ ~regex_is_match(Patterns[2], matcher.call.contents)
    /\ matcher.call.ret = FALSE

(* C2: the pattern built for every inner atom list, the empty list and a   *)
(* list with a blank atom included, matches a text exactly when at least   *)
(* one atom of the list, compiled on its own, matches that text.           *)
C2_PositionIsOrOfItsAtoms ==
    matcher.pc = "built" =>
        \A i \in 1..Len(Query) :
            regex_is_match(Patterns[i], matcher.text)
                <=> \E j \in 1..Len(Query[i]) :
                        regex_is_match(get_regex_for_atom(Query[i][j]), matcher.text)

(* C3: QueryGroup::new fails, and builds no group, on the empty outer      *)
(* list; on every other it succeeds with exactly one pattern per outer     *)
(* element, in the order of the outer list, so a group holds >= 1 pattern. *)
C3_NewRejectsEmptyElseOnePatternEach ==
    matcher.pc # "start" =>
        IF Query = <<>>
        THEN matcher.group.kind = "Err" /\ Patterns = <<>>
        ELSE /\ matcher.group.kind = "Ok"
             /\ Len(Patterns) = Len(Query)
             /\ Len(Patterns) >= 1
             /\ \A i \in 1..Len(Query) :
                    /\ Patterns[i].ok
                    /\ Patterns[i].src
                           = join([j \in 1..Len(Query[i]) |->
                                       _get_regex_for_atom(Query[i][j])], <<PIPE>>)

C3_Witness ==
    /\ matcher.pc = "built"
    /\ Query = << << <<65>> >>, << <<ZHONG, LOWER_A>>, <<PIPE, SPACE, PIPE>> >> >>
    /\ Patterns[1].src = <<65>>
    /\ Patterns[2].src = <<ZHONG>> \o SepStar \o <<LOWER_A, PIPE, BACKSLASH, PIPE>>
                              \o SepPlus \o <<BACKSLASH, PIPE>>

(* C10: for every group, file and (before, after), is_match_context        *)
(* returns a result for the file exactly when is_match returns one for it. *)
C10_ContextMatchesSameFiles ==
    ContextReturned =>
        (matcher.call.ret.kind = "Some"
            <=> is_match(Patterns, matcher.fs, matcher.call.path).kind = "Some")

-----------------------------------------------------------------------------
(* Vocabulary of the properties of is_match_context. *)

Max(x, y) == IF x >= y THEN x ELSE y
Min(x, y) == IF x <= y THEN x ELSE y

CallRet == matcher.call.ret

(* is_match_context returned a result with a context: the window it asked   *)
(* for and the snippet it got are in CallRet.lead.                          *)
ContextResult == ContextReturned /\ CallRet.kind = "Some"

(* C11: for every first match [m.start, m.end) of the leading pattern and  *)
(* every before and after in usize, is_match_context passes the windower  *)
(* approx_start = max(0, m.start - before) and approx_end = min(len,       *)
(* m.end + after), so approx_start <= m.start <= m.end <= approx_end <=    *)
(* len, and computing them neither overflows nor underflows.               *)
C11_WindowRequestIsClamped ==
    ContextReturned =>
        /\ CallRet.kind # "panic"
        /\ CallRet.kind = "Some" =>
               LET l == CallRet.lead
                   len == Len(Utf8(matcher.fs[matcher.call.path].contents))
               IN /\ l.approx_start = Max(0, l.m.start - matcher.call.a)
                  /\ l.approx_end = Min(len, l.m.end + matcher.call.b)
                  /\ l.approx_start <= l.m.start
                  /\ l.m.start <= l.m.end
                  /\ l.m.end <= l.approx_end
                  /\ l.approx_end <= len

(* C19: whenever is_match_context returns a result, the byte range [s, e)  *)
(* of its snippet holds the whole first match of the leading pattern:      *)
(* s <= m.start and m.end <= e, for every before and after.                *)
C19_SnippetHoldsTheMatch ==
    ContextResult =>
        /\ CallRet.lead.ret_start <= CallRet.lead.m.start
        /\ CallRet.lead.m.end <= CallRet.lead.ret_end
        /\ CallRet.lead.m.start < CallRet.lead.m.end => CallRet.context.text # <<>>

-----------------------------------------------------------------------------
(* Vocabulary of the properties of approx_substring. *)

SetMin(S) == CHOOSE x \in S : \A y \in S : x <= y
SetMax(S) == CHOOSE x \in S : \A y \in S : x >= y

(* s: the smallest character boundary >= approx_start (approx_start <= len) *)
BoundaryFrom(w) ==
    SetMin({x \in Boundaries(w.contents) : x >= w.approx_start_byte_index})

(* e: the largest character boundary <= min(approx_end, len)               *)
BoundaryUpTo(w) ==
    SetMax({x \in Boundaries(w.contents) :
                x <= Min(w.approx_end_byte_index, w.end)})

WindowReturned ==
    /\ windower.pc = "done"
    /\ windower.approx_start_byte_index <= windower.end

(* The slice [s, e) when s <= e, the empty string when s > e; and the      *)
(* requested range itself when its ends are boundaries in order.           *)
SliceOfNearestBoundaries(w) ==
    LET s == BoundaryFrom(w)
        e == BoundaryUpTo(w)
    IN /\ s <= e => /\ w.ret_start = s
                    /\ w.ret_end = e
                    /\ Utf8(w.ret) = SubSeq(Utf8(w.contents), s + 1, e)
       /\ s > e => w.ret = <<>>
       /\ (/\ w.approx_start_byte_index \in Boundaries(w.contents)
           /\ w.approx_end_byte_index \in Boundaries(w.contents)
           /\ w.approx_start_byte_index <= w.approx_end_byte_index)
          => /\ w.ret_start = w.approx_start_byte_index
             /\ w.ret_end = w.approx_end_byte_index

(* C16 as stated: for every text and offsets with approx_start <= len,     *)
(* approx_substring returns the slice [s, e) of the nearest boundaries     *)
(* inside the request (empty when s > e), and each end moves by at most 3  *)
(* bytes from the offset that was asked for.                               *)
C16_EndsMoveAtMostThree ==
    WindowReturned =>
        /\ SliceOfNearestBoundaries(windower)
        /\ BoundaryFrom(windower) - windower.approx_start_byte_index <= 3
        /\ windower.approx_end_byte_index - BoundaryUpTo(windower) <= 3

(* C16, amended: the same slice, the start moves forward by at most 3      *)
(* bytes and the end moves back by at most 3 bytes from min(approx_end,    *)
(* len); an approx_end past the end of the text moves by approx_end - len  *)
(* first, which can be any amount.                                         *)
C16_EndsMoveAtMostThreeFromClamped ==
    WindowReturned =>
        /\ SliceOfNearestBoundaries(windower)
        /\ BoundaryFrom(windower) - windower.approx_start_byte_index <= 3
        /\ Min(windower.approx_end_byte_index, windower.end)
               - BoundaryUpTo(windower) <= 3

C16_Witness ==
    /\ WindowReturned
    /\ windower.contents = <<20013, 128512>>
    /\ windower.approx_start_byte_index = 2
    /\ windower.approx_end_byte_index = 6
    /\ windower.ret_start = 3
    /\ windower.ret_end = 3

(* What is left of a run of approx_substring: the turns the forward scan   *)
(* can still take, the turns the backward scan can still take, and the     *)
(* steps between the loops and the return.                                 *)
ScanMeasure(w) ==
    CASE w.pc = "start_loop" ->
             (IF w.start_byte_index <= w.end
              THEN w.end - w.start_byte_index + 1 ELSE 0)
             + w.end_byte_index + 3
      [] w.pc = "end_loop" -> w.end_byte_index + 2
      [] w.pc = "slice" -> 1
      [] OTHER -> 0

ScansStayInRange(w) ==
    /\ w.pc # "panic"
    /\ w.start_byte_index >= w.approx_start_byte_index
    /\ w.start_byte_index <= Max(w.approx_start_byte_index, w.end)
    /\ w.end_byte_index >= 0
    /\ w.end_byte_index <= w.approx_end_byte_index
    /\ (w.approx_start_byte_index <= w.end /\ w.approx_end_byte_index <= w.end)
       => /\ w.start_byte_index - w.approx_start_byte_index <= w.end
          /\ w.approx_end_byte_index - w.end_byte_index <= w.end

(* C18: approx_substring terminates for every text and every pair of       *)
(* offsets: every step brings the run nearer to its return, a run that has *)
(* not returned can take a step, the forward scan never moves the start    *)
(* past len (nor past where it began, when that is beyond len), the        *)
(* backward scan never takes the end below 0, and with both offsets in     *)
(* [0, len] each scan takes at most len steps.                             *)
C18_WindowTerminates ==
    /\ [](windower.pc = "idle" \/ ScansStayInRange(windower))
    /\ [](windower.pc \in {"idle", "done"} \/ ENABLED NextWindow)
    /\ [][windower.pc # "idle"
            => ScanMeasure(windower') < ScanMeasure(windower)]_vars

C18_Witness ==
    /\ windower.pc = "done"
    /\ windower.contents = <<128512>>
    /\ windower.approx_start_byte_index = 1
    /\ windower.approx_end_byte_index = 3
    /\ windower.start_byte_index = 4
    /\ windower.end_byte_index = 0

-----------------------------------------------------------------------------
(* Vocabulary of the properties of the characters of an atom. *)

IsBlankChar(c) == c \in {SPACE, TAB, LF, CR}

WithoutBlanks(a) == SelectSeq(a, LAMBDA c : ~IsBlankChar(c))

(* The pattern source with its separators dropped and its escapes undone:  *)
(* the characters of its literal items, in order.                          *)
RetUnescaped == [k \in 1..Len(RetLits) |-> RetItems[RetLits[k]].ch]

(* C17: the Term class is the start/end sentinel only: every character of  *)
(* the atom itself, U+0000 included, is classified Blank, Hans or Other,   *)
(* so every non-blank character of the atom is in the pattern source, in   *)
(* order: dropping the separators and unescaping gives the atom with its   *)
(* blanks removed.                                                         *)
C17_TermIsSentinelOnly ==
    CompileDone =>
        /\ OnlyClasses(compiler.atom, {"Blank", "Hans", "Other"})
        /\ RetParsed.ok
        /\ Len(RetParsed.alts) = 1
        /\ RetUnescaped = WithoutBlanks(compiler.atom)

-----------------------------------------------------------------------------
(* Vocabulary of the properties of the separators. *)

SourceItems(src) == Parse(src).alts[1]

OneAlternative(src) == Parse(src).ok /\ Len(Parse(src).alts) = 1

IsSep(item) == item.cls = "space"

BeginsWithSep(src) == SourceItems(src) # <<>> /\ IsSep(Head(SourceItems(src)))

EndsWithSep(src) ==
    SourceItems(src) # <<>> /\ IsSep(SourceItems(src)[Len(SourceItems(src))])

TwoSepsInARow(src) ==
    \E i \in 1..(Len(SourceItems(src)) - 1) :
        IsSep(SourceItems(src)[i]) /\ IsSep(SourceItems(src)[i + 1])

(* The loop has consumed the atom and its closing sentinel. *)
CompileAtEnd ==
    compiler.pc = "done" \/ compiler.pos > Len(Chained(compiler.atom))

(* C20 as stated: after every step of the state machine and at its end,    *)
(* the emitted pattern source (regex) never begins with a separator, never *)
(* ends with a separator and never has two separators in a row; at the end *)
(* the word buffer is empty.                                               *)
C20_SeparatorsOnlyBetweenTokens ==
    compiler.pc # "idle" =>
        /\ OneAlternative(compiler.st.regex)
        /\ ~BeginsWithSep(compiler.st.regex)
        /\ ~EndsWithSep(compiler.st.regex)
        /\ ~TwoSepsInARow(compiler.st.regex)
        /\ CompileAtEnd => compiler.st.word = <<>>

(* C20, amended: after every step the emitted source never begins with a   *)
(* separator and never has two in a row, and it ends with a separator only *)
(* while the token that follows is still in the word buffer; at the end    *)
(* it does not end with a separator and the word buffer is empty.          *)
C20_SeparatorsFollowedByBufferedToken ==
    compiler.pc # "idle" =>
        /\ OneAlternative(compiler.st.regex)
        /\ ~BeginsWithSep(compiler.st.regex)
        /\ ~TwoSepsInARow(compiler.st.regex)
        /\ EndsWithSep(compiler.st.regex) => compiler.st.word # <<>>
        /\ ~EndsWithSep(compiler.st.regex \o escape(compiler.st.word))
        /\ CompileAtEnd => /\ compiler.st.word = <<>>
                           /\ ~EndsWithSep(compiler.st.regex)

C20_Witness ==
    /\ compiler.pc = "loop"
    /\ compiler.atom = <<ZHONG, SPACE, WEN>>
    /\ compiler.st.regex = <<ZHONG>> \o SepPlus
    /\ compiler.st.word = <<WEN>>

-----------------------------------------------------------------------------
(* Vocabulary of the properties of the scans. *)

ScanDone == scanner.pc = "done"

ResultPaths(ret) == [i \in 1..Len(ret) |-> ret[i].path]

PathSet(ret) == {ret[i].path : i \in 1..Len(ret)}

(* The file at path can be read and every pattern of the group matches it. *)
FileMatches(sc, path) ==
    /\ sc.fs[path].ok
    /\ \A k \in 1..Len(sc.patterns) :
           regex_is_match(sc.patterns[k], sc.fs[path].contents)

MatchingPaths(sc) == SelectSeq(sc.textfile_paths, LAMBDA path : FileMatches(sc, path))

(* The same scan, of the same group, files and paths, with parallel = false. *)
Sequentially(sc) ==
    SeqRun([sc EXCEPT !.pc = "scan", !.parallel = FALSE, !.pos = 1,
                      !.item = Pending, !.out = <<>>, !.ret = <<>>])

(* What the work item of the i-th path yields when it runs alone. *)
AloneAt(sc, i) == FilterMapFn(sc, sc.textfile_paths[i])

(* C12: for the same group and paths, search_text and search_text_context  *)
(* with parallel = true end as they do with parallel = false, returning    *)
(* the same set of paths, whatever the order in which the per-file work    *)
(* items run; what an item yields does not depend on the other items.      *)
C12_ParallelReturnsTheSameSet ==
    (scanner.pc \in {"scan", "done", "panic"} /\ scanner.parallel) =>
        /\ \A i \in DOMAIN scanner.slots :
               scanner.slots[i] # Pending => scanner.slots[i] = AloneAt(scanner, i)
        /\ scanner.pc \in {"done", "panic"} =>
               /\ Sequentially(scanner).pc = scanner.pc
               /\ PathSet(Sequentially(scanner).ret) = PathSet(scanner.ret)

C12_Witness ==
    /\ ScanDone
    /\ scanner.parallel
    /\ scanner.call.fn = "search_text_context"
    /\ scanner.textfile_paths = <<"hello.txt", "missing.txt", "world.txt">>
    /\ PathSet(scanner.ret) = {"hello.txt", "world.txt"}

(* C13: with parallel = false the paths of the returned list are the       *)
(* subsequence of the input list made of the readable files that match the *)
(* group: in input order, once per matching position, nothing else.        *)
C13_SequentialKeepsInputOrder ==
    (ScanDone /\ ~scanner.parallel) =>
        ResultPaths(scanner.ret) = MatchingPaths(scanner)

C13_Witness ==
    /\ ScanDone
    /\ ~scanner.parallel
    /\ scanner.textfile_paths = <<"world.txt", "hello.txt", "world.txt">>
    /\ ResultPaths(scanner.ret) = <<"world.txt", "hello.txt", "world.txt">>

(* C14: for every valid group and every list of paths a scan, sequential   *)
(* or parallel, with or without context, completes and returns a           *)
(* collection; a file whose read fails contributes no result and no error, *)
(* and the other files of the list are still evaluated and reported.       *)
C14_ScanAlwaysReturns ==
    /\ scanner.pc # "panic"
    /\ ScanDone =>
           PathSet(scanner.ret)
               = {scanner.textfile_paths[i] : i \in
                     {j \in 1..Len(scanner.textfile_paths) :
                          FileMatches(scanner, scanner.textfile_paths[j])}}

(* C15: in py_search_text, when a or b or both are absent no context is    *)
(* extracted and every result has context absent; when both are present    *)
(* every result has context present.                                       *)
C15_ContextIffBothArgs ==
    (ScanDone /\ scanner.call.fn = "py_search_text") =>
        IF scanner.call.a.some /\ scanner.call.b.some
        THEN /\ scanner.context
             /\ \A i \in 1..Len(scanner.ret) : scanner.ret[i].context.some
        ELSE /\ ~scanner.context
             /\ \A i \in 1..Len(scanner.ret) : ~scanner.ret[i].context.some

C15_Witness ==
    /\ ScanDone
    /\ scanner.call.fn = "py_search_text"
    /\ scanner.call.a.some
    /\ ~scanner.call.b.some
    /\ scanner.ret # <<>>

C15_WitnessBoth ==
    /\ ScanDone
    /\ scanner.call.fn = "py_search_text"
    /\ scanner.call.a.some
    /\ scanner.call.b.some
    /\ scanner.ret # <<>>

=============================================================================
